---- MODULE Spec2Model ----
(***************************************************************************)
(* A model of capirca/lib/nacaddr.py: annotated IP prefixes, the           *)
(* fixed-point collapser (CollapseAddrList), the token preserving          *)
(* collapser (CollapseAddrListPreserveTokens) and the set difference       *)
(* (AddressListExclude).                                                   *)
(*                                                                         *)
(* Addresses are scaled down: a version 4 address has Bits bits and a      *)
(* version 6 address has one bit less (the two widths differ, as 32 and    *)
(* 128 do), and networks of two versions never compare equal or contain    *)
(* one another.  A comment (the .text of an                                *)
(* object) is a sequence of characters, so that Python's substring test    *)
(* `comment in self.text` is a test on contiguous subsequences.  A token   *)
(* is a natural number; 0 stands for the empty string and the order of     *)
(* the numbers stands for the order of the strings.                        *)
(*                                                                         *)
(* Python objects have identity: `objs` is the heap, a sequence of object  *)
(* records, and every list of the program is a sequence of indices into    *)
(* the heap.  An object that the code mutates in place (AddComment) is     *)
(* changed in the heap; an object that the code creates is appended.       *)
(***************************************************************************)
EXTENDS Integers, Sequences, FiniteSets, TLC

\* ---------------------------------------------------------------- bounds
Bits == 2          \* width of an address, in bits
MaxLen == 3        \* longest list of addresses a caller passes
MaxCompl == 1      \* longest list of complement addresses a caller passes
MaxSup == 2        \* longest superset list a caller passes
MaxExcl == 2       \* longest list of excludes a caller passes
MaxDiff == 2       \* largest prefixlen_diff a caller passes

Versions == {4, 6}
Comments == {<<>>, <<"a">>, <<"b">>, <<"a", "b">>}
Tokens == {0, 1, 2}

None == 0          \* Python's None, for a node reference

\* ------------------------------------------------ ipaddress primitives
RECURSIVE Pow2(_)
Pow2(n) == IF n = 0 THEN 1 ELSE 2 * Pow2(n - 1)

\* max_prefixlen of a version (scaled down from 32 and 128)
max_prefixlen(v) == IF v = 4 THEN Bits ELSE Bits - 1

\* the netmask of a network, as an integer
netmask(n) == Pow2(max_prefixlen(n.version)) - Pow2(max_prefixlen(n.version) - n.prefixlen)

broadcast_address(n) == n.network_address + Pow2(max_prefixlen(n.version) - n.prefixlen) - 1

\* every network value of the model: the network address has no host bits
Networks ==
  { [version |-> v, network_address |-> a, prefixlen |-> l] :
      v \in Versions, a \in 0..(Pow2(Bits) - 1), l \in 0..Bits }

IsNetwork(n) ==
  /\ n.prefixlen \in 0..max_prefixlen(n.version)
  /\ n.network_address \in 0..(Pow2(max_prefixlen(n.version)) - 1)
  /\ n.network_address % Pow2(max_prefixlen(n.version) - n.prefixlen) = 0

ValidNetworks == { n \in Networks : IsNetwork(n) }

\* the network part of an object
Net(o) == [version |-> o.version, network_address |-> o.network_address,
           prefixlen |-> o.prefixlen]

\* _BaseNetwork.__eq__
NetEq(a, b) ==
  /\ a.version = b.version
  /\ a.network_address = b.network_address
  /\ netmask(a) = netmask(b)

\* _BaseNetwork._is_subnet_of(a, b), for two networks of one version
_is_subnet_of(a, b) ==
  /\ b.network_address <= a.network_address
  /\ broadcast_address(b) >= broadcast_address(a)

subnet_of(self, other) ==
  IF self.version # other.version THEN FALSE ELSE _is_subnet_of(self, other)

supernet_of(self, other) ==
  IF self.version # other.version THEN FALSE ELSE _is_subnet_of(other, self)

\* address in network (_BaseNetwork.__contains__)
Contains(n, v, a) ==
  /\ n.version = v
  /\ n.network_address <= a
  /\ a <= broadcast_address(n)

\* _BaseNetwork.overlaps
overlaps(self, other) ==
  \/ Contains(other, self.version, self.network_address)
  \/ Contains(other, self.version, broadcast_address(self))
  \/ Contains(self, other.version, other.network_address)
  \/ Contains(self, other.version, broadcast_address(other))

\* _get_networks_key and get_mixed_type_key of a network
_get_networks_key(n) == <<n.version, n.network_address, netmask(n)>>

\* Python's < on two tuples of three integers
TupleLess(k1, k2) ==
  \/ k1[1] < k2[1]
  \/ k1[1] = k2[1] /\ k1[2] < k2[2]
  \/ k1[1] = k2[1] /\ k1[2] = k2[2] /\ k1[3] < k2[3]

\* ------------------------------------------------------------ comments
IsSubstring(c, t) ==
  \E i \in 0..(Len(t) - Len(c)) : SubSeq(t, i + 1, i + Len(c)) = c

\* the value of self.text after self.AddComment(comment)
AddComment(text, comment) ==
  IF text # <<>>
    THEN IF comment # <<>> /\ ~IsSubstring(comment, text)
           THEN text \o <<",", " ">> \o comment
           ELSE text
    ELSE comment

\* IPv4(...) and IPv6(...): a new object
NewObj(n, comment, token) ==
  [version |-> n.version, network_address |-> n.network_address,
   prefixlen |-> n.prefixlen, text |-> comment, token |-> token,
   parent_token |-> token]

\* supernet that builds the wider network without the comment
supernetNoComment(heap, id, prefixlen_diff) ==
  LET self == heap[id]
      new_prefixlen == self.prefixlen - prefixlen_diff
      size == Pow2(max_prefixlen(self.version) - new_prefixlen)
  IN  IF self.prefixlen = 0
        THEN [objs |-> heap, ret |-> id, err |-> "none"]
      ELSE IF self.prefixlen - prefixlen_diff < 0
        THEN [objs |-> heap, ret |-> None, err |-> "PrefixlenDiffInvalidError"]
      ELSE [objs |-> Append(heap,
                       NewObj([version |-> self.version,
                               network_address |->
                                 self.network_address - (self.network_address % size),
                               prefixlen |-> new_prefixlen],
                              <<>>, self.token)),
            ret |-> Len(heap) + 1, err |-> "none"]

\* self.supernet(prefixlen_diff) on the object heap[id]: the heap after the
\* call, the object returned and the exception raised
supernet(heap, id, prefixlen_diff) ==
  LET self == heap[id]
      W == max_prefixlen(self.version)
      new_prefixlen == self.prefixlen - prefixlen_diff
      size == Pow2(W - new_prefixlen)
  IN  IF self.prefixlen = 0
        THEN [objs |-> heap, ret |-> id, err |-> "none"]
      ELSE IF self.prefixlen - prefixlen_diff < 0
        THEN [objs |-> heap, ret |-> None, err |-> "PrefixlenDiffInvalidError"]
      ELSE [objs |-> Append(heap,
                       NewObj([version |-> self.version,
                               network_address |->
                                 self.network_address - (self.network_address % size),
                               prefixlen |-> new_prefixlen],
                              self.text, self.token)),
            ret |-> Len(heap) + 1, err |-> "none"]

\* --------------------------------------------------------------- sorting
\* insert id into a list already in order, behind every element it is not
\* strictly before: the step of a stable sort
RECURSIVE InsertByKey(_, _, _, _)
InsertByKey(heap, lst, id, reverse) ==
  IF lst = <<>> THEN <<id>>
  ELSE LET k == _get_networks_key(heap[id])
           h == _get_networks_key(heap[Head(lst)])
           before == IF reverse THEN TupleLess(h, k) ELSE TupleLess(k, h)
       IN  IF before THEN <<id>> \o lst
           ELSE <<Head(lst)>> \o InsertByKey(heap, Tail(lst), id, reverse)

RECURSIVE SortFrom(_, _, _, _)
SortFrom(heap, done, todo, reverse) ==
  IF todo = <<>> THEN done
  ELSE SortFrom(heap, InsertByKey(heap, done, Head(todo), reverse), Tail(todo), reverse)

\* sorted(ids, key=ipaddress.get_mixed_type_key): stable, never raises
SortAddrList(heap, ids) == SortFrom(heap, <<>>, ids, FALSE)

MixedVersions(heap, ids) ==
  \E i, j \in 1..Len(ids) : heap[ids[i]].version # heap[ids[j]].version

\* sorted(ids) and sorted(ids, reverse=True) with the networks' own __lt__,
\* which raises TypeError when it compares two versions
sorted(heap, ids, reverse) ==
  IF MixedVersions(heap, ids)
    THEN [ret |-> <<>>, err |-> "TypeError"]
    ELSE [ret |-> SortFrom(heap, <<>>, ids, reverse), err |-> "none"]

Reversed(s) == [i \in 1..Len(s) |-> s[Len(s) + 1 - i]]


\* ------------------------------------------------------ the safety check
\* the key of complements_dict: the network_address object of a network
AddrKey(n) == <<n.version, n.network_address>>

AddrKeys == { <<v, a>> : v \in Versions, a \in 0..(Pow2(Bits) - 1) }

\* the loop of _SafeToMerge over check_addresses.get(address.network_address):
\* `merge_target.netmask <= check_address.netmask` compares two address
\* objects and raises TypeError when their versions differ
RECURSIVE SafeLoop(_, _, _, _)
SafeLoop(heap, address, merge_target, checks) ==
  IF checks = <<>> THEN "true"
  ELSE LET check_address == heap[Head(checks)]
       IN  IF merge_target.version # check_address.version THEN "TypeError"
           ELSE IF /\ netmask(merge_target) <= netmask(check_address)
                   /\ netmask(check_address) < netmask(address)
             THEN "false"
           ELSE SafeLoop(heap, address, merge_target, Tail(checks))

_SafeToMerge(heap, address, merge_target, check_addresses) ==
  SafeLoop(heap, address, merge_target, check_addresses[AddrKey(address)])

\* complements_dict of CollapseAddrList: the complements whose network
\* address is the network address of some element of addresses, by address
ComplementsDict(heap, addrs, compl) ==
  LET address_set == { AddrKey(heap[addrs[i]]) : i \in 1..Len(addrs) }
  IN  [ k \in AddrKeys |->
          IF k \in address_set
            THEN LET At(id) == AddrKey(heap[id]) = k IN SelectSeq(compl, At)
            ELSE <<>> ]

\* -------------------------------------------------------- the linked list
\* The nodes are 1..n; val[i] is the object of node i, next[i] and prev[i]
\* are nodes or None, fringe is the deque of nodes.  The head is node 1.

\* addrs = _LinkedList(addresses[0]); node.Add(addr); fringe.append(node)
SeedList(sorted_ids) ==
  LET n == Len(sorted_ids)
  IN  [val    |-> sorted_ids,
       next   |-> [i \in 1..n |-> IF i < n THEN i + 1 ELSE None],
       prev   |-> [i \in 1..n |-> IF i > 1 THEN i - 1 ELSE None],
       fringe |-> [i \in 1..n |-> i]]

\* RemoveNext that leaves the links of the node it removes in place
RemoveNextKeepsLinks(l, cur) ==
  LET new_next == l.next[l.next[cur]]
      nxt1 == [l.next EXCEPT ![cur] = new_next]
  IN  [l EXCEPT !.next = nxt1,
                !.prev = IF new_next # None
                           THEN [l.prev EXCEPT ![new_next] = cur]
                           ELSE l.prev]

\* cur.RemoveNext()
RemoveNext(l, cur) ==
  LET old_next == l.next[cur]
      new_next == l.next[old_next]
      nxt1 == [l.next EXCEPT ![old_next] = None, ![cur] = new_next]
      prv1 == [l.prev EXCEPT ![old_next] = None]
  IN  [l EXCEPT !.next = nxt1,
                !.prev = IF new_next # None
                           THEN [prv1 EXCEPT ![new_next] = cur]
                           ELSE prv1]

\* the test of the elif without its last line, the alignment of cur
SiblingTestNoAlign(cur_ip, next_ip) ==
  IF cur_ip.version # next_ip.version THEN "false"
  ELSE IF cur_ip.prefixlen # next_ip.prefixlen THEN "false"
  ELSE IF broadcast_address(cur_ip) + 1 > Pow2(max_prefixlen(cur_ip.version)) - 1
    THEN "AddressValueError"
  ELSE IF broadcast_address(cur_ip) + 1 # next_ip.network_address THEN "false"
  ELSE "true"

\* the test of the elif at lines 333-336, after supernet_of was false;
\* broadcast_address + 1 raises AddressValueError past the last address
SiblingTest(cur_ip, next_ip) ==
  IF cur_ip.version # next_ip.version THEN "false"
  ELSE IF cur_ip.prefixlen # next_ip.prefixlen THEN "false"
  ELSE IF broadcast_address(cur_ip) + 1 > Pow2(max_prefixlen(cur_ip.version)) - 1
    THEN "AddressValueError"
  ELSE IF broadcast_address(cur_ip) + 1 # next_ip.network_address THEN "false"
  ELSE IF cur_ip.prefixlen = 0 THEN "true"
  ELSE IF cur_ip.network_address
            - (cur_ip.network_address
                 % Pow2(max_prefixlen(cur_ip.version) - cur_ip.prefixlen + 1))
          = cur_ip.network_address
    THEN "true"
  ELSE "false"

\* the fringe after a sibling merge at cur: appendleft(cur), append(cur.prev)
FringeAfterSiblingNoPrev(l, cur) == <<cur>> \o l.fringe

FringeAfterSibling(l, cur) ==
  IF l.prev[cur] # None
    THEN (<<cur>> \o l.fringe) \o <<l.prev[cur]>>
    ELSE <<cur>> \o l.fringe

\* the fringe after a containment merge at cur: appendleft(cur)
FringeAfterContain(l, cur) == <<cur>> \o l.fringe

\* What one iteration of `while fringe:` leaves: the heap and the list after
\* it, the exception raised, and which branch was taken.
\* an iteration that changes nothing but the fringe
Skip(heap, popped, kind) ==
  [objs |-> heap, ll |-> popped, err |-> "none", kind |-> kind]

\* an iteration that raises
Raise(heap, popped, e) ==
  [objs |-> heap, ll |-> popped, err |-> e, kind |-> "raise"]

\* cur_ip.AddComment(next_ip.text): the object cur_ip is changed in place
Commented(heap, cur_ip, next_ip) ==
  [heap EXCEPT ![cur_ip].text = AddComment(@, heap[next_ip].text)]

\* lines 330-332, on the list l1 that cur.RemoveNext() left
ContainMerge(heap, l1, cur, cur_ip, next_ip) ==
  [objs |-> Commented(heap, cur_ip, next_ip),
   ll |-> [l1 EXCEPT !.fringe = FringeAfterContain(l1, cur)],
   err |-> "none", kind |-> "contain"]

\* lines 341-343, on the list l2 whose node cur holds the supernet
Requeue(l2, cur) == [l2 EXCEPT !.fringe = FringeAfterSibling(l2, cur)]

\* lines 338-343: sup is what cur_ip.Supernet() gave after the AddComment,
\* l1 is the list that cur.RemoveNext() left
SiblingMerge(sup, l1, cur) ==
  [objs |-> sup.objs,
   ll |-> Requeue([l1 EXCEPT !.val[cur] = sup.ret], cur),
   err |-> sup.err, kind |-> "sibling"]

\* lines 333-343, given the outcome of the test of the elif
DecideSibling(heap, popped, cur, cur_ip, next_ip, sib) ==
  IF sib = "AddressValueError" THEN Raise(heap, popped, "AddressValueError")
  ELSE IF sib = "true"
    THEN SiblingMerge(supernet(Commented(heap, cur_ip, next_ip), cur_ip, 1),
                      RemoveNext(popped, cur), cur)
  ELSE Skip(heap, popped, "nomerge")

\* lines 326-343, given the outcome of _SafeToMerge
Decide(heap, popped, cur, cur_ip, next_ip, safe) ==
  IF safe = "TypeError" THEN Raise(heap, popped, "TypeError")
  ELSE IF safe = "false" THEN Skip(heap, popped, "unsafe")
  ELSE IF supernet_of(heap[cur_ip], heap[next_ip])
    THEN ContainMerge(heap, RemoveNext(popped, cur), cur, cur_ip, next_ip)
  ELSE DecideSibling(heap, popped, cur, cur_ip, next_ip,
                     SiblingTest(heap[cur_ip], heap[next_ip]))

\* cur = fringe.popleft()
Pop(l) == [l EXCEPT !.fringe = Tail(l.fringe)]

\* lines 324-343, for a node cur that has a successor
Examine(heap, l, dict, cur, cur_ip, next_ip) ==
  Decide(heap, Pop(l), cur, cur_ip, next_ip,
         _SafeToMerge(heap, heap[next_ip], heap[cur_ip], dict))

\* one iteration of `while fringe:` (lines 320-343)
LoopBody(heap, l, dict) ==
  IF l.next[Head(l.fringe)] = None
    THEN Skip(heap, Pop(l), "nonext")
    ELSE Examine(heap, l, dict, Head(l.fringe), l.val[Head(l.fringe)],
                 l.val[l.next[Head(l.fringe)]])

\* the branch the next iteration takes
LoopKind(heap, l, dict) == LoopBody(heap, l, dict).kind

\* the while loop, to its end or to an exception
RECURSIVE RunLoop(_, _, _)
Continue(r, dict) ==
  IF r.err # "none" THEN [objs |-> r.objs, ll |-> r.ll, err |-> r.err]
  ELSE RunLoop(r.objs, r.ll, dict)

RunLoop(heap, l, dict) ==
  IF l.fringe = <<>> THEN [objs |-> heap, ll |-> l, err |-> "none"]
  ELSE Continue(LoopBody(heap, l, dict), dict)

\* lines 346-350: the values of the list from the head on
RECURSIVE Package(_, _)
Package(l, node) ==
  IF node = None THEN <<>> ELSE <<l.val[node]>> \o Package(l, l.next[node])

\* what _CollapseAddrListInternal returns after the loop
Returned(r) ==
  IF r.err # "none" THEN [objs |-> r.objs, ret |-> <<>>, err |-> r.err]
  ELSE [objs |-> r.objs, ret |-> Package(r.ll, 1), err |-> "none"]

\* _CollapseAddrListInternal(addresses, complements_by_network)
_CollapseAddrListInternal(heap, sorted_ids, dict) ==
  IF sorted_ids = <<>> THEN [objs |-> heap, ret |-> sorted_ids, err |-> "none"]
  ELSE Returned(RunLoop(heap, SeedList(sorted_ids), dict))

\* CollapseAddrList(addresses, complement_addresses)
CollapseAddrList(heap, addrs, compl) ==
  _CollapseAddrListInternal(heap, SortAddrList(heap, addrs),
                            ComplementsDict(heap, addrs, compl))


\* ------------------------------------------------------ AddressListExclude
\* the two halves of a network: list(n.subnets())
LowerHalf(n) == [n EXCEPT !.prefixlen = n.prefixlen + 1]

UpperHalf(n) ==
  [n EXCEPT !.prefixlen = n.prefixlen + 1,
            !.network_address =
               n.network_address + Pow2(max_prefixlen(n.version) - n.prefixlen - 1)]

\* ipaddress address_exclude(other) for other strictly inside n: the
\* networks it yields, in order
RECURSIVE address_exclude(_, _)
address_exclude(n, other) ==
  LET s1 == LowerHalf(n)
      s2 == UpperHalf(n)
  IN  IF NetEq(s1, other) THEN <<s2>>
      ELSE IF NetEq(s2, other) THEN <<s1>>
      ELSE IF subnet_of(other, s1) THEN <<s2>> \o address_exclude(s1, other)
      ELSE <<s1>> \o address_exclude(s2, other)

\* [IP(x) for x in ...], with the comment and the token given
IPs(nets, comment, token) == [i \in 1..Len(nets) |-> NewObj(nets[i], comment, token)]

\* [IP(x) for x in ...] (line 410): IP(x) passes neither comment nor token
ChildObjs(addr, nets) == IPs(nets, <<>>, 0)

\* ret_array.extend([...]) with objects new on the heap
Extended(heap, ret, kids) ==
  [objs |-> heap \o kids, ret |-> ret \o [i \in 1..Len(kids) |-> Len(heap) + i]]

\* one round of the for loop of RemoveAddressFromList (lines 405-412)
RemoveOne(heap, ret, id, addr, excl) ==
  IF NetEq(excl, addr) \/ subnet_of(addr, excl)
    THEN [objs |-> heap, ret |-> ret]
  ELSE IF excl.version = addr.version /\ subnet_of(excl, addr)
    THEN Extended(heap, ret, ChildObjs(addr, address_exclude(Net(addr), Net(excl))))
  ELSE [objs |-> heap, ret |-> Append(ret, id)]

\* the for loop of RemoveAddressFromList: the heap and ret_array after it
RECURSIVE RemoveLoop(_, _, _)
RemoveNextOf(r, todo, exclude) == RemoveLoop(r, Tail(todo), exclude)

RemoveLoop(r, todo, exclude) ==
  IF todo = <<>> THEN r
  ELSE RemoveNextOf(RemoveOne(r.objs, r.ret, Head(todo), r.objs[Head(todo)],
                              r.objs[exclude]),
                    todo, exclude)

\* return sorted(ret_array)
SortedOn(heap, s) == [objs |-> heap, ret |-> s.ret, err |-> s.err]

SortedReturn(r) == SortedOn(r.objs, sorted(r.objs, r.ret, FALSE))

\* RemoveAddressFromList(superset, exclude)
RemoveAddressFromList(heap, lst, exclude) ==
  SortedReturn(RemoveLoop([objs |-> heap, ret |-> <<>>], lst, exclude))

\* list(set(ids)) in the order of the first occurrences: of two equal
\* networks the set keeps the one added first
RECURSIVE SetOf(_, _, _)
SetOf(heap, ids, kept) ==
  IF ids = <<>> THEN kept
  ELSE IF \E i \in 1..Len(kept) : NetEq(heap[kept[i]], heap[Head(ids)])
    THEN SetOf(heap, Tail(ids), kept)
  ELSE SetOf(heap, Tail(ids), Append(kept, Head(ids)))

\* lines 428-429: the stacks from the two collapsed lists
CollapsedStacks(c1, c2) ==
  [objs |-> c2.objs, superset |-> Reversed(c1.ret), excludes |-> Reversed(c2.ret),
   err |-> IF c1.err # "none" THEN c1.err ELSE c2.err]

ThenCollapse(c1, exc) == CollapsedStacks(c1, CollapseAddrList(c1.objs, exc, <<>>))

\* lines 431-432: the stacks from the two sorted lists
SortedStacks(heap, s1, s2) ==
  [objs |-> heap, superset |-> s1.ret, excludes |-> s2.ret,
   err |-> IF s1.err # "none" THEN s1.err ELSE s2.err]

\* lines 427-432: the two stacks, or the exception of sorted()
ExcludeStacks(heap, sup, exc, collapse) ==
  IF collapse
    THEN ThenCollapse(CollapseAddrList(heap, sup, <<>>), exc)
    ELSE SortedStacks(heap, sorted(heap, sup, TRUE), sorted(heap, exc, TRUE))

\* which branch of the while loop (lines 436-443) two tops take
TopsKind(s, e) ==
  IF overlaps(s, e) THEN "overlap"
  ELSE IF TupleLess(_get_networks_key(s), _get_networks_key(e)) THEN "emit"
  ELSE "drop"

ScanKind(heap, sup, exc) == TopsKind(heap[sup[Len(sup)]], heap[exc[Len(exc)]])

\* lines 444-447: the value returned
ExcludeResult(heap, rest, collapse) ==
  IF collapse
    THEN CollapseAddrList(heap, rest, <<>>)
    ELSE SortedOn(heap, sorted(heap, SetOf(heap, rest, <<>>), FALSE))

\* ------------------------------------------ CollapseAddrListPreserveTokens
\* _InNetList(adders, ip)
_InNetList(heap, adders, ip) ==
  \E i \in 1..Len(adders) : subnet_of(heap[ip], heap[adders[i]])

\* IsSuperNet(supernets, subnets)
IsSuperNet(heap, supernets, subnets) ==
  \A i \in 1..Len(subnets) : _InNetList(heap, supernets, subnets[i])

\* the elements of ids whose parent_token is t, in their order
WithToken(heap, ids, t) ==
  LET Has(id) == heap[id].parent_token = t IN SelectSeq(ids, Has)

\* itertools.groupby(sorted(addresses, key=parent_token), parent_token): the
\* groups, from the token t on
RECURSIVE GroupsFrom(_, _, _)
GroupsFrom(heap, ids, t) ==
  IF \A i \in 1..Len(ids) : heap[ids[i]].parent_token < t THEN <<>>
  ELSE IF \E i \in 1..Len(ids) : heap[ids[i]].parent_token = t
    THEN <<WithToken(heap, ids, t)>> \o GroupsFrom(heap, ids, t + 1)
  ELSE GroupsFrom(heap, ids, t + 1)

\* ret_array.append(CollapseAddrList(list(grp[1]))) for every group
RECURSIVE CollapseGroups(_, _, _)
Collected(c, groups, ret) ==
  IF c.err # "none" THEN [objs |-> c.objs, ret |-> ret, err |-> c.err]
  ELSE CollapseGroups(c.objs, Tail(groups), Append(ret, c.ret))

CollapseGroups(heap, groups, ret) ==
  IF groups = <<>> THEN [objs |-> heap, ret |-> ret, err |-> "none"]
  ELSE Collected(CollapseAddrList(heap, Head(groups), <<>>), groups, ret)

\* del dedup_array[k], k counted from 1
Del(arr, k) == SubSeq(arr, 1, k - 1) \o SubSeq(arr, k + 1, Len(arr))

\* the inner while loop (lines 226-232), k counted from 1: dedup_array after
\* it and to_add
RECURSIVE DedupInner(_, _, _, _)
DedupInner(heap, dedup, ip, k) ==
  IF k > Len(dedup) THEN [dedup_array |-> dedup, to_add |-> TRUE]
  ELSE IF IsSuperNet(heap, dedup[k], ip)
    THEN [dedup_array |-> dedup, to_add |-> FALSE]
  ELSE IF IsSuperNet(heap, ip, dedup[k])
    THEN DedupInner(heap, Del(dedup, k), ip, k + 1)
  ELSE DedupInner(heap, dedup, ip, k + 1)

\* lines 233-234
Accepted(d, ip) == IF d.to_add THEN Append(d.dedup_array, ip) ELSE d.dedup_array

\* one round of the outer while loop (lines 222-234) for the group ip
DedupRound(heap, dedup, ip) == Accepted(DedupInner(heap, dedup, ip, 1), ip)

\* [i for sublist in dedup_array for i in sublist]
RECURSIVE Flatten(_)
Flatten(lists) == IF lists = <<>> THEN <<>> ELSE Head(lists) \o Flatten(Tail(lists))

\* =================================================================== state
VARIABLES
  pc,                   \* where the call in progress is
  objs,                 \* the heap: the object records, by identity
  objs0,                \* the heap when the call was made
  addresses,            \* the caller's list (addresses, or superset)
  complement_addresses, \* the caller's second list (complements, or excludes)
  complements_dict,     \* CollapseAddrList: complements by network address
  ll,                   \* _CollapseAddrListInternal: the linked list and fringe
  dequeued,             \* how many times fringe.popleft() ran
  merges,               \* how many times a node was unlinked
  collapse_addrs,       \* AddressListExclude: its flag
  superset,             \* AddressListExclude: the superset stack
  excludes,             \* AddressListExclude: the excludes stack
  ret_array,            \* the ret_array of the function in progress
  dedup_array,          \* CollapseAddrListPreserveTokens: accepted groups
  prefixlen_diff,       \* supernet: its argument
  result,               \* the value returned
  err                   \* the exception raised, or "none"

vars == <<pc, objs, objs0, addresses, complement_addresses, complements_dict, ll,
          dequeued, merges, collapse_addrs, superset, excludes, ret_array,
          dedup_array, prefixlen_diff, result, err>>

collapseVars == <<complements_dict, ll, dequeued, merges>>
excludeVars == <<collapse_addrs, superset, excludes>>

\* the heap of a caller that built the objects of two lists, one after the
\* other, with IP(ip, comment, token)
CallerHeap(a, c) ==
  [i \in 1..(Len(a) + Len(c)) |-> IF i <= Len(a) THEN a[i] ELSE c[i - Len(a)]]

\* the locals of the functions that are not running
NoLocals ==
  /\ complements_dict = [k \in AddrKeys |-> <<>>]
  /\ ll = SeedList(<<>>)
  /\ dequeued = 0
  /\ merges = 0
  /\ superset = <<>>
  /\ excludes = <<>>
  /\ ret_array = <<>>
  /\ dedup_array = <<>>
  /\ result = <<>>
  /\ err = "none"

\* a caller's two lists of objects, about to be passed to a function
Inputs(ObjsA, maxA, ObjsC, maxC) ==
  \E n \in 0..maxA, m \in 0..maxC :
    \E a \in [1..n -> ObjsA], c \in [1..m -> ObjsC] :
      /\ objs = CallerHeap(a, c)
      /\ objs0 = CallerHeap(a, c)
      /\ addresses = [i \in 1..n |-> i]
      /\ complement_addresses = [i \in 1..m |-> n + i]

PlainObjs == { NewObj(n, <<>>, 0) : n \in ValidNetworks }
CommentedObjs == { NewObj(n, c, 0) : n \in ValidNetworks, c \in Comments }

\* ------------------------------------------- CollapseAddrList, step by step
\* a call of CollapseAddrList(addresses, complement_addresses) on plain objects
Init ==
  /\ pc = "call"
  /\ Inputs(PlainObjs, MaxLen, PlainObjs, MaxCompl)
  /\ collapse_addrs = FALSE
  /\ prefixlen_diff = 0
  /\ NoLocals

\* lines 379-385 and 310-317: the dictionary, the sort, the list and the fringe
EnterWith(sorted_ids) ==
  IF sorted_ids = <<>>
    THEN /\ pc' = "done"
         /\ result' = sorted_ids
         /\ ll' = ll
    ELSE /\ pc' = "loop"
         /\ result' = result
         /\ ll' = SeedList(sorted_ids)

EnterCollapse ==
  /\ pc = "call"
  /\ complements_dict' = ComplementsDict(objs, addresses, complement_addresses)
  /\ EnterWith(SortAddrList(objs, addresses))
  /\ UNCHANGED <<objs, objs0, addresses, complement_addresses, dequeued, merges,
                 excludeVars, ret_array, dedup_array, prefixlen_diff, err>>

\* one iteration of the while loop: fringe.popleft() and the body
IterateTo(r) ==
  /\ objs' = r.objs
  /\ ll' = r.ll
  /\ err' = r.err
  /\ pc' = IF r.err # "none" THEN "raised" ELSE "loop"
  /\ merges' = IF r.kind \in {"contain", "sibling"} THEN merges + 1 ELSE merges

Iterate ==
  /\ IterateTo(LoopBody(objs, ll, complements_dict))
  /\ dequeued' = dequeued + 1
  /\ UNCHANGED <<objs0, addresses, complement_addresses, complements_dict,
                 excludeVars, ret_array, dedup_array, prefixlen_diff, result>>

\* the loop is running and its next iteration takes the branch `kind`
AtBranch(kind) ==
  /\ pc = "loop"
  /\ ll.fringe # <<>>
  /\ LoopKind(objs, ll, complements_dict) = kind

\* lines 322-323: cur has no successor
LoopNoNext ==
  /\ AtBranch("nonext")
  /\ Iterate

\* lines 326-327: the merge is not safe
LoopUnsafe ==
  /\ AtBranch("unsafe")
  /\ Iterate

\* lines 328-332: cur contains its successor
LoopContain ==
  /\ AtBranch("contain")
  /\ Iterate

\* lines 333-343: cur and its successor are the halves of a supernet
LoopSibling ==
  /\ AtBranch("sibling")
  /\ Iterate

\* neither test holds
LoopNoMerge ==
  /\ AtBranch("nomerge")
  /\ Iterate

\* a comparison raises
LoopRaise ==
  /\ AtBranch("raise")
  /\ Iterate

\* lines 345-350
PackageResult ==
  /\ pc = "loop"
  /\ ll.fringe = <<>>
  /\ result' = Package(ll, 1)
  /\ pc' = "done"
  /\ UNCHANGED <<objs, objs0, addresses, complement_addresses, collapseVars,
                 excludeVars, ret_array, dedup_array, prefixlen_diff, err>>

Next ==
  \/ EnterCollapse
  \/ LoopNoNext
  \/ LoopUnsafe
  \/ LoopContain
  \/ LoopSibling
  \/ LoopNoMerge
  \/ LoopRaise
  \/ PackageResult

Spec == Init /\ [][Next]_vars


\* the same call on objects that carry comments, with no complement list
InitComments ==
  /\ pc = "call"
  /\ Inputs(CommentedObjs, MaxLen, PlainObjs, 0)
  /\ collapse_addrs = FALSE
  /\ prefixlen_diff = 0
  /\ NoLocals

NextComments ==
  \/ EnterCollapse
  \/ LoopNoNext
  \/ LoopContain
  \/ LoopSibling
  \/ LoopNoMerge
  \/ PackageResult

SpecComments == InitComments /\ [][NextComments]_vars

\* ============================================================== properties
\* the addresses of a network, and of the networks of a list
AddressesOf(n) == { <<n.version, a>> : a \in n.network_address..broadcast_address(n) }

Covered(heap, ids) == UNION { AddressesOf(heap[ids[i]]) : i \in 1..Len(ids) }

AllAddresses == { <<v, a>> \in AddrKeys : a < Pow2(max_prefixlen(v)) }

\* the nodes still linked from the head
RECURSIVE Linked(_, _)
Linked(l, node) == IF node = None THEN {} ELSE {node} \cup Linked(l, l.next[node])

LinkedNodes == IF ll.val = <<>> THEN {} ELSE Linked(ll, 1)

\* C1: when CollapseAddrList(S, C) returns, the addresses covered by the
\* returned prefixes are exactly the addresses covered by S, whatever the
\* complement list C is.
C1_CollapseKeepsAddresses ==
  pc = "done" => Covered(objs, result) = Covered(objs0, addresses)

C1_Witness ==
  /\ pc = "done"
  /\ Len(addresses) = 3
  /\ Len(result) = 1
  /\ merges = 2
  /\ complement_addresses # <<>>
  /\ \A i \in 1..Len(addresses) : objs0[addresses[i]].prefixlen > objs[result[1]].prefixlen

\* most specific match with excludes: some prefix of the list holds the
\* address and is longer than every complement prefix that holds it
Match(heap, ids, a) ==
  \E i \in 1..Len(ids) :
    /\ a \in AddressesOf(heap[ids[i]])
    /\ \A j \in 1..Len(complement_addresses) :
         a \in AddressesOf(objs0[complement_addresses[j]])
           => heap[ids[i]].prefixlen > objs0[complement_addresses[j]].prefixlen

\* C3: collapsing with the complement list supplied never changes, for any
\* address, whether the address list matches it under most specific match
\* with the complement list as excludes.
C3_MatchIntentKept ==
  pc = "done" =>
    \A a \in AllAddresses : Match(objs, result, a) <=> Match(objs0, addresses, a)

\* C4: with no complement, the result of CollapseAddrList holds no two
\* elements where one contains or equals the other, and no two elements that
\* are the lower and the upper half of one supernet.
Halves(a, b) ==
  /\ a.version = b.version
  /\ a.prefixlen = b.prefixlen
  /\ a.prefixlen > 0
  /\ broadcast_address(a) + 1 = b.network_address
  /\ a.network_address % Pow2(max_prefixlen(a.version) - a.prefixlen + 1) = 0

C4_ResultMinimal ==
  (pc = "done" /\ complement_addresses = <<>>) =>
    \A i, j \in 1..Len(result) :
      i # j => /\ ~supernet_of(objs[result[i]], objs[result[j]])
               /\ ~Halves(objs[result[i]], objs[result[j]])

\* the upper half came first in the caller's list, a later sibling merge
\* widened the successor of a node that had been skipped, and all three
\* prefixes ended in one
C4_Witness ==
  /\ pc = "done"
  /\ complement_addresses = <<>>
  /\ Len(addresses) = 3
  /\ Len(result) = 1
  /\ objs0[1].prefixlen = 2 /\ objs0[1].network_address = 3
  /\ objs0[2].prefixlen = 2 /\ objs0[2].network_address = 2
  /\ objs0[3].prefixlen = 1 /\ objs0[3].network_address = 0
  /\ objs[result[1]].prefixlen = 0

\* at most n - 1 nodes are unlinked and at most n + 2(n - 1) dequeued
C10_Counts ==
  pc \in {"loop", "done", "raised"} /\ Len(addresses) > 0 =>
    /\ merges <= Len(addresses) - 1
    /\ dequeued <= Len(addresses) + 2 * (Len(addresses) - 1)
    /\ dequeued + Len(ll.fringe) <= Len(addresses) + 2 * merges

\* a step of the loop that enqueues a node unlinks one node
C10_EnqueueOnlyOnUnlink ==
  (pc = "loop" /\ ll.fringe # <<>> /\ Len(ll'.fringe) > Len(ll.fringe) - 1) =>
    /\ Cardinality(LinkedNodes') = Cardinality(LinkedNodes) - 1
    /\ merges' = merges + 1

\* a dequeued node that is unlinked already leaves the list as it is
C10_UnlinkedNeverMerged ==
  (pc = "loop" /\ ll.fringe # <<>> /\ Head(ll.fringe) \notin LinkedNodes) =>
    /\ ll'.val = ll.val
    /\ ll'.next = ll.next
    /\ ll'.prev = ll.prev
    /\ objs' = objs
    /\ merges' = merges

\* every step taken in the loop dequeues one node or leaves the loop
C10_Progress ==
  pc = "loop" => (dequeued' = dequeued + 1 \/ pc' = "done")

\* C10: the worklist loop ends, because every iteration dequeues one node
\* and the number of nodes dequeued is bounded: after the seeding of n nodes
\* a step enqueues a node only when it unlinks one node, at most n - 1 nodes
\* are unlinked, at most n + 2(n - 1) nodes are dequeued, and a dequeued node
\* that is already unlinked is not merged again.
C10_LoopTerminates ==
  /\ []C10_Counts
  /\ [][C10_EnqueueOnlyOnUnlink]_vars
  /\ [][C10_UnlinkedNeverMerged]_vars
  /\ [][C10_Progress]_vars

\* a node was unlinked before its turn came and was dequeued later, after
\* two merges
C10_Witness ==
  /\ pc = "loop"
  /\ merges = 2
  /\ ll.fringe # <<>>
  /\ Head(ll.fringe) \notin LinkedNodes
  /\ complement_addresses # <<>>


\* every input prefix with a comment is covered by a returned prefix whose
\* comment holds that comment
C6_Kept ==
  pc = "done" =>
    \A i \in 1..Len(addresses) :
      objs0[addresses[i]].text # <<>> =>
        \E j \in 1..Len(result) :
          /\ supernet_of(objs[result[j]], objs0[addresses[i]])
          /\ IsSubstring(objs0[addresses[i]].text, objs[result[j]].text)

\* what a merge leaves as the comment of the surviving prefix
C6_MergeStep ==
  (pc = "loop" /\ merges' = merges + 1) =>
    LET cur == Head(ll.fringe)
        kept == objs[ll.val[cur]].text
        absorbed == objs[ll.val[ll.next[cur]]].text
        after == objs'[ll'.val[cur]].text
    IN  /\ kept = <<>> => after = absorbed
        /\ (kept # <<>> /\ absorbed = <<>>) => after = kept
        /\ (kept # <<>> /\ absorbed # <<>> /\ IsSubstring(absorbed, kept)) => after = kept
        /\ (kept # <<>> /\ absorbed # <<>> /\ ~IsSubstring(absorbed, kept)) =>
             after = kept \o <<",", " ">> \o absorbed

\* C6: no comment is lost by CollapseAddrList: every input prefix with a
\* comment is covered by a returned prefix whose comment holds that comment
\* as a substring; and a merge leaves on the surviving prefix (the supernet,
\* after a sibling merge) its comment followed by ", " and the absorbed
\* comment when that one is not empty and not a substring yet, else the
\* comment that is not empty.
C6_CommentsNeverLost == []C6_Kept /\ [][C6_MergeStep]_vars

\* 'a' and 'b' were joined in a new supernet, which then absorbed 'ab'
C6_Witness ==
  /\ pc = "done"
  /\ merges = 2
  /\ Len(result) = 1
  /\ result[1] > Len(objs0)
  /\ objs[result[1]].text = <<"a", ",", " ", "b", ",", " ", "a", "b">>

\* C8: the objects of the caller's list are, after the call, what they were
\* before it: same network, same comment, same token.
C8_InputsUnchanged ==
  pc = "done" => \A i \in 1..Len(objs0) : objs[i] = objs0[i]


\* ------------------------------------------- AddressListExclude, step by step
TaggedObjs == { NewObj(n, <<"a">>, 1) : n \in ValidNetworks }

\* a call of AddressListExclude(addresses, complement_addresses, collapse_addrs)
InitExclude ==
  /\ pc = "call"
  /\ Inputs(TaggedObjs, MaxSup, PlainObjs, MaxExcl)
  /\ collapse_addrs \in BOOLEAN
  /\ prefixlen_diff = 0
  /\ NoLocals

\* lines 427-434
EnterTo(r) ==
  /\ objs' = r.objs
  /\ superset' = r.superset
  /\ excludes' = r.excludes
  /\ err' = r.err
  /\ pc' = IF r.err # "none" THEN "raised" ELSE "scan"

EnterExclude ==
  /\ pc = "call"
  /\ EnterTo(ExcludeStacks(objs, addresses, complement_addresses, collapse_addrs))
  /\ UNCHANGED <<objs0, addresses, complement_addresses, collapseVars, collapse_addrs,
                 ret_array, dedup_array, prefixlen_diff, result>>

Scanning(kind) ==
  /\ pc = "scan"
  /\ superset # <<>>
  /\ excludes # <<>>
  /\ ScanKind(objs, superset, excludes) = kind

\* lines 437-439: ip = superset.pop(); superset.extend(reversed(...))
SplitTo(r) ==
  /\ objs' = r.objs
  /\ superset' = SubSeq(superset, 1, Len(superset) - 1) \o Reversed(r.ret)
  /\ err' = r.err
  /\ pc' = IF r.err # "none" THEN "raised" ELSE "scan"

\* lines 436-439: the top of superset is split around the top of excludes
ScanOverlap ==
  /\ Scanning("overlap")
  /\ SplitTo(RemoveAddressFromList(objs, <<superset[Len(superset)]>>,
                                   excludes[Len(excludes)]))
  /\ UNCHANGED <<objs0, addresses, complement_addresses, collapseVars, collapse_addrs,
                 excludes, ret_array, dedup_array, prefixlen_diff, result>>

\* lines 440-441: the top of superset is before the top of excludes
ScanEmit ==
  /\ Scanning("emit")
  /\ ret_array' = Append(ret_array, superset[Len(superset)])
  /\ superset' = SubSeq(superset, 1, Len(superset) - 1)
  /\ UNCHANGED <<pc, objs, objs0, addresses, complement_addresses, collapseVars,
                 collapse_addrs, excludes, dedup_array, prefixlen_diff, result, err>>

\* lines 442-443
ScanDrop ==
  /\ Scanning("drop")
  /\ excludes' = SubSeq(excludes, 1, Len(excludes) - 1)
  /\ UNCHANGED <<pc, objs, objs0, addresses, complement_addresses, collapseVars,
                 collapse_addrs, superset, ret_array, dedup_array, prefixlen_diff,
                 result, err>>

\* lines 444-447
ReturnTo(r) ==
  /\ objs' = r.objs
  /\ result' = r.ret
  /\ err' = r.err
  /\ pc' = IF r.err # "none" THEN "raised" ELSE "done"

ReturnExclude ==
  /\ pc = "scan"
  /\ superset = <<>> \/ excludes = <<>>
  /\ ReturnTo(ExcludeResult(objs, ret_array \o superset, collapse_addrs))
  /\ UNCHANGED <<objs0, addresses, complement_addresses, collapseVars, excludeVars,
                 ret_array, dedup_array, prefixlen_diff>>

NextExclude ==
  \/ EnterExclude
  \/ ScanOverlap
  \/ ScanEmit
  \/ ScanDrop
  \/ ReturnExclude

SpecExclude == InitExclude /\ [][NextExclude]_vars

\* C2: AddressListExclude(superset, excludes, collapse_addrs) covers exactly
\* the addresses of superset that no prefix of excludes covers, for lists of
\* one version and both values of collapse_addrs.
C2_ExactDifference ==
  (pc = "done" /\ ~MixedVersions(objs0, addresses \o complement_addresses)) =>
    Covered(objs, result)
      = Covered(objs0, addresses) \ Covered(objs0, complement_addresses)

\* the children that a split puts on the stack carry the comment and the
\* token of the prefix popped
C7_SplitStep ==
  (pc = "scan" /\ Len(superset') >= Len(superset) /\ superset' # superset) =>
    \A i \in Len(superset)..Len(superset') :
      /\ objs'[superset'[i]].text = objs[superset[Len(superset)]].text
      /\ objs'[superset'[i]].token = objs[superset[Len(superset)]].token

\* C7: every child prefix that a split of a superset prefix around an
\* exclude puts on the stack carries the comment and the token of the
\* superset prefix that was split.
C7_ChildrenInherit == [][C7_SplitStep]_vars


\* --------------------------------- CollapseAddrListPreserveTokens, by rounds
TokenObjs == { NewObj(n, <<>>, t) : n \in ValidNetworks, t \in Tokens }

\* a call of CollapseAddrListPreserveTokens(addresses)
InitTokens ==
  /\ pc = "call"
  /\ Inputs(TokenObjs, MaxLen, PlainObjs, 0)
  /\ collapse_addrs = FALSE
  /\ prefixlen_diff = 0
  /\ NoLocals

\* lines 216-221
GroupsTo(r) ==
  /\ objs' = r.objs
  /\ ret_array' = r.ret
  /\ err' = r.err
  /\ pc' = IF r.err # "none" THEN "raised" ELSE "dedup"

EnterTokens ==
  /\ pc = "call"
  /\ GroupsTo(CollapseGroups(objs, GroupsFrom(objs, addresses, 0), <<>>))
  /\ UNCHANGED <<objs0, addresses, complement_addresses, collapseVars, excludeVars,
                 dedup_array, prefixlen_diff, result>>

\* lines 222-234: ip = ret_array.pop(0) and the inner loop
Round ==
  /\ pc = "dedup"
  /\ ret_array # <<>>
  /\ ret_array' = Tail(ret_array)
  /\ dedup_array' = DedupRound(objs, dedup_array, Head(ret_array))
  /\ UNCHANGED <<pc, objs, objs0, addresses, complement_addresses, collapseVars,
                 excludeVars, prefixlen_diff, result, err>>

\* the group is consumed by an accepted group: it is dropped
DedupDrop ==
  /\ Round
  /\ Len(dedup_array') <= Len(dedup_array)
  /\ Head(ret_array) \notin { dedup_array'[i] : i \in 1..Len(dedup_array') }

\* the group is appended and every accepted group stays
DedupKeep ==
  /\ Round
  /\ Len(dedup_array') = Len(dedup_array) + 1

\* the group is appended and accepted groups that it consumes are deleted
DedupReplace ==
  /\ Round
  /\ Len(dedup_array') <= Len(dedup_array)
  /\ dedup_array'[Len(dedup_array')] = Head(ret_array)
  /\ \E i \in 1..Len(dedup_array) :
       dedup_array[i] \notin { dedup_array'[j] : j \in 1..Len(dedup_array') }

\* line 235
ReturnTokens ==
  /\ pc = "dedup"
  /\ ret_array = <<>>
  /\ result' = Flatten(dedup_array)
  /\ pc' = "done"
  /\ UNCHANGED <<objs, objs0, addresses, complement_addresses, collapseVars,
                 excludeVars, ret_array, dedup_array, prefixlen_diff, err>>

NextTokens ==
  \/ EnterTokens
  \/ DedupDrop
  \/ DedupKeep
  \/ DedupReplace
  \/ ReturnTokens

SpecTokens == InitTokens /\ [][NextTokens]_vars

\* C5: of the token groups that CollapseAddrListPreserveTokens returns, none
\* is fully consumed by another one.
C5_NoConsumedGroup ==
  pc = "done" =>
    \A g, h \in 1..Len(dedup_array) :
      g # h => ~IsSuperNet(objs, dedup_array[h], dedup_array[g])

\* ------------------------------------------------------- supernet, one call
AnyObjs == { NewObj(n, c, t) : n \in ValidNetworks, c \in Comments, t \in Tokens }

\* a call of objs[1].supernet(prefixlen_diff)
InitSupernet ==
  /\ pc = "call"
  /\ Inputs(AnyObjs, 1, PlainObjs, 0)
  /\ addresses # <<>>
  /\ collapse_addrs = FALSE
  /\ prefixlen_diff \in 1..MaxDiff
  /\ NoLocals

SupernetTo(r) ==
  /\ objs' = r.objs
  /\ result' = IF r.err = "none" THEN <<r.ret>> ELSE <<>>
  /\ err' = r.err
  /\ pc' = IF r.err # "none" THEN "raised" ELSE "done"

CallSupernet ==
  /\ pc = "call"
  /\ SupernetTo(supernet(objs, addresses[1], prefixlen_diff))
  /\ UNCHANGED <<objs0, addresses, complement_addresses, collapseVars, excludeVars,
                 ret_array, dedup_array, prefixlen_diff>>

\* lines 107-108: the prefix length is 0 already
SupernetOfAll ==
  /\ objs[addresses[1]].prefixlen = 0
  /\ CallSupernet

\* lines 109-112
SupernetRaises ==
  /\ objs[addresses[1]].prefixlen # 0
  /\ objs[addresses[1]].prefixlen - prefixlen_diff < 0
  /\ CallSupernet

\* lines 113-115
SupernetReturns ==
  /\ objs[addresses[1]].prefixlen - prefixlen_diff >= 0
  /\ objs[addresses[1]].prefixlen # 0
  /\ CallSupernet

NextSupernet ==
  \/ SupernetOfAll
  \/ SupernetRaises
  \/ SupernetReturns

SpecSupernet == InitSupernet /\ [][NextSupernet]_vars

\* C9: the supernet of a prefix of length 0 is refused with
\* PrefixlenDiffInvalidError, for every prefixlen_diff >= 1.
C9_SupernetOfLengthZeroRaises ==
  (pc # "call" /\ objs0[addresses[1]].prefixlen = 0) =>
    (pc = "raised" /\ err = "PrefixlenDiffInvalidError")

====
